---------------------------- MODULE Spec2Model ----------------------------
(***************************************************************************)
(* A model of the quiz generator: the response recovery                    *)
(* (_extract_json_from_response), the retry loops of the two type-batches, *)
(* generate_quiz, the schema validators and the Streamlit session of       *)
(* app.py.                                                                 *)
(*                                                                         *)
(* Texts are sequences of lexemes.  A lexeme is a record whose field lex   *)
(* names what the characters are:                                          *)
(*   FENCE  three backticks            JSON   the word json                *)
(*   WS     whitespace                 PROSE  a word of prose              *)
(*   LB     [        RB   ]            COMMA  ,                            *)
(*   NUM    a JSON scalar              OBJ    the text of one {...} object *)
(* An OBJ lexeme carries the object it denotes (obj, a function from the   *)
(* keys it has to their values) and how it is written (syn, a set of       *)
(* flags: "sq" single-quoted strings, "tc" a trailing comma before its },  *)
(* "apos" an apostrophe inside a double-quoted string).                    *)
(***************************************************************************)
EXTENDS Integers, Sequences, FiniteSets, TLC

\* ------------------------------------------------------------------ bounds

\* The largest num_questions a generate_quiz call is given.
MaxN == 4
\* The longest text (in lexemes) the recovery is applied to exhaustively.
MaxTextLen == 3
\* The most elements of the arrays the recovery is applied to.
MaxElems == 3
\* The most entries of an options value the validators are applied to.
MaxOptions == 5
\* The largest value of the "Number of Questions" slider that is followed.
MaxSlider == 5
\* The most records of a quiz list given to an export or to validate_quiz_data.
MaxQuiz == 2
\* The largest num_questions the partition is computed for.
MaxCount == 100

\* --------------------------------------------------------------- lexemes

Lx(l) == [lex |-> l]

ObjLx(q, syn) == [lex |-> "OBJ", obj |-> q, syn |-> syn]

IsWS(x) == x.lex = "WS"

HasOptionList(x) ==
    /\ x.lex = "OBJ"
    /\ "options" \in DOMAIN x.obj
    /\ x.obj["options"].isList

\* The characters of the lexeme include a '['.
ContainsLB(x) == x.lex = "LB" \/ HasOptionList(x)

\* The characters of the lexeme include a ']'.
ContainsRB(x) == x.lex = "RB" \/ HasOptionList(x)

\* str.strip()
RECURSIVE LStrip(_)
LStrip(t) == IF t # <<>> /\ IsWS(Head(t)) THEN LStrip(Tail(t)) ELSE t

RECURSIVE RStrip(_)
RStrip(t) ==
    IF t # <<>> /\ IsWS(t[Len(t)]) THEN RStrip(SubSeq(t, 1, Len(t) - 1)) ELSE t

Strip(t) == RStrip(LStrip(t))

\* text.startswith('```json'), text.startswith('```'), text.endswith('```')
StartsWithFenceJson(t) == Len(t) >= 2 /\ t[1].lex = "FENCE" /\ t[2].lex = "JSON"

StartsWithFence(t) == Len(t) >= 1 /\ t[1].lex = "FENCE"

EndsWithFence(t) == Len(t) >= 1 /\ t[Len(t)].lex = "FENCE"

\* Lines 25-28
DropLeadingFence(t) ==
    IF StartsWithFenceJson(t) THEN SubSeq(t, 3, Len(t))
    ELSE IF StartsWithFence(t) THEN SubSeq(t, 2, Len(t))
    ELSE t

\* Lines 29-30
DropTrailingFence(t) == IF EndsWithFence(t) THEN SubSeq(t, 1, Len(t) - 1) ELSE t

\* Lines 22-31: strip, drop a leading ```json or ```, drop a trailing ```, strip.
StripFences(response_text) ==
    Strip(DropTrailingFence(DropLeadingFence(Strip(response_text))))

\* text.find('['): the 0-based index of the first lexeme holding a '[', or -1.
FindLB(t) ==
    IF \E i \in 1..Len(t) : ContainsLB(t[i])
    THEN (CHOOSE i \in 1..Len(t) :
            ContainsLB(t[i]) /\ \A j \in 1..(i - 1) : ~ContainsLB(t[j])) - 1
    ELSE -1

\* text.rfind(']'): the 0-based index of the last lexeme holding a ']', or -1.
RFindRB(t) ==
    IF \E i \in 1..Len(t) : ContainsRB(t[i])
    THEN (CHOOSE i \in 1..Len(t) :
            ContainsRB(t[i]) /\ \A j \in (i + 1)..Len(t) : ~ContainsRB(t[j])) - 1
    ELSE -1

\* text[start_idx:end_idx] for 0 <= start_idx < end_idx.  A slice that starts
\* at the '[' of an object's option list, or ends at its ']', cuts the object:
\* when it starts and ends in the same object it is that option list (OPTS);
\* otherwise the cut object leaves a fragment (FRAG) of no JSON value.
Slice(t, start_idx, end_idx) ==
    IF start_idx + 1 = end_idx /\ t[end_idx].lex = "OBJ"
    THEN << [lex |-> "OPTS", syn |-> t[end_idx].syn,
             len |-> t[end_idx].obj["options"].len] >>
    ELSE [i \in 1..(end_idx - start_idx) |->
            IF t[start_idx + i].lex = "OBJ" /\ (i = 1 \/ i = end_idx - start_idx)
            THEN Lx("FRAG") ELSE t[start_idx + i]]

\* ------------------------------------------------------------ json.loads

NoValue == [ok |-> FALSE, val |-> [k |-> "none"], next |-> 0]

Parsed(v, next) == [ok |-> TRUE, val |-> v, next |-> next]

ScalarVal == [k |-> "scalar"]

DictVal(q) == [k |-> "dict", obj |-> q]

ListVal(items) == [k |-> "list", items |-> items]

\* The index of the first lexeme at or after i that is not whitespace.
RECURSIVE SkipWS(_, _)
SkipWS(t, i) == IF i <= Len(t) /\ IsWS(t[i]) THEN SkipWS(t, i + 1) ELSE i

\* Whether the strict parser reads the object as written.
ObjParses(x) == x.syn \cap {"sq", "tc", "broken"} = {}

\* One JSON value starting at lexeme i: an object, a scalar, an option list
\* cut out of an object, or an array [ v , v , ... ].
RECURSIVE ParseValue(_, _)
RECURSIVE ParseElems(_, _, _)
RECURSIVE ParseMore(_, _, _, _)
ParseValue(t, i) ==
    IF i > Len(t) THEN NoValue
    ELSE IF t[i].lex = "OBJ"
         THEN IF ObjParses(t[i]) THEN Parsed(DictVal(t[i].obj), i + 1) ELSE NoValue
    ELSE IF t[i].lex = "NUM" THEN Parsed(ScalarVal, i + 1)
    ELSE IF t[i].lex = "OPTS"
         THEN IF "sq" \in t[i].syn THEN NoValue
              ELSE Parsed(ListVal([n \in 1..t[i].len |-> ScalarVal]), i + 1)
    ELSE IF t[i].lex = "LB"
         THEN IF SkipWS(t, i + 1) <= Len(t) /\ t[SkipWS(t, i + 1)].lex = "RB"
              THEN Parsed(ListVal(<<>>), SkipWS(t, i + 1) + 1)
              ELSE ParseElems(t, SkipWS(t, i + 1), <<>>)
    ELSE NoValue

\* The elements of an array after its '[': a value at i, then ',' or ']'.
ParseElems(t, i, acc) == ParseMore(t, ParseValue(t, i), SkipWS(t, ParseValue(t, i).next), acc)

\* After the value v of an element: ']' ends the array, ',' asks for another.
ParseMore(t, v, j, acc) ==
    IF ~v.ok THEN NoValue
    ELSE IF j > Len(t) THEN NoValue
    ELSE IF t[j].lex = "RB" THEN Parsed(ListVal(Append(acc, v.val)), j + 1)
    ELSE IF t[j].lex = "COMMA" THEN ParseElems(t, SkipWS(t, j + 1), Append(acc, v.val))
    ELSE NoValue

\* A parsed value is all of the text when only whitespace follows it.
WholeText(t, v) == IF v.ok /\ SkipWS(t, v.next) > Len(t) THEN v ELSE NoValue

\* json.loads(text): one value and nothing but whitespace around it; a
\* failure (ok = FALSE) stands for json.JSONDecodeError.
JsonLoads(t) == WholeText(t, ParseValue(t, SkipWS(t, 1)))

\* Lines 52-54: replace every ' by ", then drop each comma that only
\* whitespace separates from a closing bracket or brace.
FixQuotes(x) ==
    IF x.lex = "OBJ"
    THEN [x EXCEPT !.syn = IF "apos" \in x.syn \/ "broken" \in x.syn
                           THEN (x.syn \ {"sq", "apos"}) \cup {"broken"}
                           ELSE x.syn \ {"sq"}]
    ELSE IF x.lex = "OPTS" THEN [x EXCEPT !.syn = {}]
    ELSE x

FixTrailingComma(x) ==
    IF x.lex = "OBJ" THEN [x EXCEPT !.syn = x.syn \ {"tc"}] ELSE x

RECURSIVE DropTrailingCommas(_)
DropTrailingCommas(t) ==
    IF t = <<>> THEN <<>>
    ELSE IF Head(t).lex = "COMMA" /\ SkipWS(t, 2) <= Len(t)
            /\ t[SkipWS(t, 2)].lex = "RB"
         THEN DropTrailingCommas(Tail(t))
         ELSE <<FixTrailingComma(Head(t))>> \o DropTrailingCommas(Tail(t))

FixJson(json_text) ==
    DropTrailingCommas([i \in 1..Len(json_text) |-> FixQuotes(json_text[i])])

\* ------------------------------------------------------------- recovery

\* q['type'] = question_type
SetType(q, question_type) ==
    [f \in DOMAIN q \cup {"type"} |-> IF f = "type" THEN question_type ELSE q[f]]

\* Line 46 without its test of 'correct_answer'.
KeepQuestionWithoutAnswer(v) == v.k = "dict" /\ "question" \in DOMAIN v.obj

\* Line 46 (and 60): what the loop keeps.
KeepQuestion(v) ==
    v.k = "dict" /\ "question" \in DOMAIN v.obj /\ "correct_answer" \in DOMAIN v.obj

\* Lines 44-49 (and 58-63): the kept elements, each tagged, in order.
RECURSIVE ValidQuestions(_, _)
ValidQuestions(items, question_type) ==
    IF items = <<>> THEN <<>>
    ELSE (IF KeepQuestion(Head(items))
          THEN <<SetType(Head(items).obj, question_type)>> ELSE <<>>)
         \o ValidQuestions(Tail(items), question_type)

\* Lines 42-49 for a parsed value, lines 56-63 for a repaired one.
QuestionsOf(parsed, question_type) ==
    IF parsed.val.k = "list"
    THEN ValidQuestions(parsed.val.items, question_type)
    ELSE <<>>

\* What a call ends in: a returned value, or an exception that leaves it.
Return(v) == [exc |-> "none", value |-> v]

Raise(e) == [exc |-> e, value |-> <<>>]

\* A str argument, and an argument that is no str (None).
Str(t) == [isStr |-> TRUE, lexemes |-> t]

NotStr == [isStr |-> FALSE, lexemes |-> <<>>]

\* Lines 41-66: the strict parse and, on its JSONDecodeError (line 50), the
\* parse of the repaired text; a JSONDecodeError of that one is logged at
\* line 64 and line 68 returns [].
ParseQuestions(strict, fixed, question_type) ==
    IF strict.ok THEN Return(QuestionsOf(strict, question_type))
    ELSE IF fixed.ok THEN Return(QuestionsOf(fixed, question_type))
    ELSE Return(<<>>)

\* Lines 38-66 for json_text = text[start_idx:end_idx]
ExtractFromSlice(json_text, question_type) ==
    ParseQuestions(JsonLoads(json_text), JsonLoads(FixJson(json_text)), question_type)

\* Lines 37-68
ExtractBetween(text, start_idx, end_idx, question_type) ==
    IF start_idx # -1 /\ end_idx > start_idx
    THEN ExtractFromSlice(Slice(text, start_idx, end_idx), question_type)
    ELSE Return(<<>>)

\* Lines 34-68 for the text without its fences
ExtractFromText(text, question_type) ==
    ExtractBetween(text, FindLB(text), RFindRB(text) + 1, question_type)

\* Lines 21-68, the body of the outer try.  response_text.strip() raises
\* AttributeError when response_text is no str.
extract_json_body(response_text, question_type) ==
    IF ~response_text.isStr THEN Raise("AttributeError")
    ELSE ExtractFromText(StripFences(response_text.lexemes), question_type)

\* A function without its outer try: the body's exception leaves it.
OuterHandlerMissing(r) == r

\* Lines 70-72: any exception of the body is logged and [] returned.
OuterHandler(r) == IF r.exc # "none" THEN Return(<<>>) ELSE r

\* _extract_json_from_response(response_text, question_type), lines 20-72
extract_json_from_response(response_text, question_type) ==
    OuterHandler(extract_json_body(response_text, question_type))

\* ------------------------------------------- inputs of the recovery check

Tags == {"multiple_choice", "true_false"}

\* The values an options key is given: a list of n entries, a str of n
\* characters, a number (which has no len()).
OptionList(n) == [isList |-> TRUE, sized |-> TRUE, len |-> n]

OptionString(n) == [isList |-> FALSE, sized |-> TRUE, len |-> n]

OptionNumber == [isList |-> FALSE, sized |-> FALSE, len |-> 0]

\* {"question": "Q1", "correct_answer": "A"}
ObjQA == ObjLx([question |-> "Q1", correct_answer |-> "A"], {})

\* {'question': 'Q2', 'correct_answer': 'True',}
ObjQuoted == ObjLx([question |-> "Q2", correct_answer |-> "True"], {"sq", "tc"})

\* {"question": "Q3"}
ObjNoAnswer == ObjLx([question |-> "Q3"], {})

\* {"question": "Q4", "options": ["a", "b", "c", "d"], "correct_answer": "B",
\*  "type": "essay"}
ObjOptions ==
    ObjLx([question |-> "Q4", options |-> OptionList(4), correct_answer |-> "B",
           type |-> "essay"], {})

\* {"question": "What's Q5?", "correct_answer": "False"}
ObjApostrophe == ObjLx([question |-> "What's Q5?", correct_answer |-> "False"], {"apos"})

Elements == {ObjQA, ObjQuoted, ObjNoAnswer, ObjOptions, ObjApostrophe, Lx("NUM")}

Alphabet ==
    Elements \cup {Lx("FENCE"), Lx("JSON"), Lx("WS"), Lx("LB"), Lx("RB"), Lx("COMMA")}

SeqsUpTo(S, n) == UNION {[1..m -> S] : m \in 0..n}

\* e1 , e2 , ... , en
RECURSIVE Joined(_)
Joined(elems) ==
    IF Len(elems) <= 1 THEN elems
    ELSE <<Head(elems), Lx("COMMA"), Lx("WS")>> \o Joined(Tail(elems))

\* The array of the elements as a model writes it.
ArrayText(elems, style) ==
    CASE style = "plain"    -> <<Lx("LB")>> \o Joined(elems) \o <<Lx("RB")>>
      [] style = "trailing" -> <<Lx("LB")>> \o Joined(elems)
                               \o <<Lx("COMMA"), Lx("WS"), Lx("RB")>>
      [] style = "nested"   -> <<Lx("LB"), Lx("LB")>> \o Joined(elems)
                               \o <<Lx("RB"), Lx("RB")>>
      [] style = "unclosed" -> <<Lx("LB")>> \o Joined(elems)
      [] style = "bare"     -> Joined(elems)

ArrayStyles == {"plain", "trailing", "nested", "unclosed", "bare"}

Prefixes ==
    { <<>>, <<Lx("WS"), Lx("FENCE"), Lx("JSON"), Lx("WS")>>, <<Lx("FENCE"), Lx("WS")>>,
      <<Lx("PROSE"), Lx("WS")>> }

Suffixes == { <<>>, <<Lx("WS"), Lx("FENCE"), Lx("WS")>>, <<Lx("WS"), Lx("PROSE")>> }

\* Every short text, and every array of a few elements as a model wraps it.
RecoveryTexts ==
    SeqsUpTo(Alphabet, MaxTextLen)
    \cup { p \o ArrayText(e, st) \o s :
             p \in Prefixes, e \in SeqsUpTo(Elements, MaxElems),
             st \in ArrayStyles, s \in Suffixes }

\* The arguments the recovery is called with: every such text, and None.
RecoveryInputs == {Str(t) : t \in RecoveryTexts} \cup {NotStr}

\* ------------------------------------------------ the LLM completion call

\* How one client.models.generate_content call ends: it raises, or it
\* returns a response whose .text is None or a str.
LLMException == [kind |-> "exception", text |-> NotStr]

LLMResponse(text) == [kind |-> "response", text |-> text]

\* if response.text:
Truthy(text) == text.isStr /\ text.lexemes # <<>>

\* ------------------------------------------------- the two type-batches

max_retries == 2

tf_max_retries == 2

\* What one iteration of a retry loop does next: the function returns a
\* list, an exception leaves the function, or the loop goes on.
BatchReturn(v) == [status |-> "return", value |-> v, exc |-> "none"]

BatchRaise(e) == [status |-> "raise", value |-> <<>>, exc |-> e]

BatchContinue == [status |-> "continue", value |-> <<>>, exc |-> "none"]

\* A slice that does not cut: questions[:] in place of questions[:count].
TakeAll(questions, count) == questions

\* questions[:count]
Take(questions, count) ==
    SubSeq(questions, 1, IF count < Len(questions) THEN count ELSE Len(questions))

\* The request of the call at lines 145-152.
mc_request(text, count, difficulty) ==
    [model |-> "gemini-2.5-flash",
     contents |-> [type |-> "multiple-choice", count |-> count,
                   difficulty |-> difficulty, text |-> text],
     temperature |-> "0.7", max_output_tokens |-> 8000]

\* The request of the call at lines 197-204.
tf_request(text, count, difficulty) ==
    [model |-> "gemini-2.5-flash",
     contents |-> [type |-> "true/false", count |-> count,
                   difficulty |-> difficulty, text |-> text],
     temperature |-> "0.7", max_output_tokens |-> 6000]

\* A loop with range(max_retries + 1): one more iteration than max_retries.
NextIterationOneMore(attempt, retries) ==
    IF attempt < retries THEN BatchContinue ELSE BatchReturn(<<>>)

\* The end of an iteration that returned nothing: the next iteration, or,
\* after the last one, line 168 (220).
NextIteration(attempt, retries) ==
    IF attempt + 1 < retries THEN BatchContinue ELSE BatchReturn(<<>>)

\* A handler that gives the batch up at the first exception: `return []`
\* without the test of line 165.
AttemptHandlerGivesUp(attempt, retries) == BatchReturn(<<>>)

\* A handler that lets the exception go: `raise` in place of lines 165-166.
AttemptHandlerRaises(attempt, retries) == BatchRaise("Exception")

\* Lines 163-166 (215-218), the handler of the try.
AttemptHandler(attempt, retries) ==
    IF attempt = retries - 1 THEN BatchReturn(<<>>) ELSE NextIteration(attempt, retries)

\* Lines 158-161 going on to the next attempt when fewer records than count
\* were recovered, in place of returning them.
mc_accept_exact_only(r, count, attempt) ==
    IF r.exc # "none" THEN AttemptHandler(attempt, max_retries)
    ELSE IF Len(r.value) = count THEN BatchReturn(r.value)
    ELSE IF Len(r.value) > count THEN BatchReturn(Take(r.value, count))
    ELSE IF Len(r.value) > 0 /\ attempt + 1 = max_retries THEN BatchReturn(r.value)
    ELSE NextIteration(attempt, max_retries)

\* Line 159 with questions[-count:], the last `count` records, in place of
\* questions[:count].
mc_accept_last(r, count, attempt) ==
    IF r.exc # "none" THEN AttemptHandler(attempt, max_retries)
    ELSE IF Len(r.value) = count THEN BatchReturn(r.value)
    ELSE IF Len(r.value) > 0
    THEN BatchReturn(IF count > 0 /\ count < Len(r.value)
                     THEN SubSeq(r.value, Len(r.value) - count + 1, Len(r.value))
                     ELSE r.value)
    ELSE NextIteration(attempt, max_retries)

\* Lines 155-161 for what the recovery returned (r)
mc_accept(r, count, attempt) ==
    IF r.exc # "none" THEN AttemptHandler(attempt, max_retries)
    ELSE IF Len(r.value) = count THEN BatchReturn(r.value)
    ELSE IF Len(r.value) > 0 THEN BatchReturn(Take(r.value, count))
    ELSE NextIteration(attempt, max_retries)

\* _generate_multiple_choice_questions, lines 143-168: the iteration of the
\* loop for `attempt`, given how its LLM call ends.
mc_attempt(count, attempt, outcome) ==
    IF outcome.kind = "exception" THEN AttemptHandler(attempt, max_retries)
    ELSE IF Truthy(outcome.text)
    THEN mc_accept(extract_json_from_response(outcome.text, "multiple_choice"),
                   count, attempt)
    ELSE NextIteration(attempt, max_retries)

\* Lines 207-213 for what the recovery returned (r)
tf_accept(r, count, attempt) ==
    IF r.exc # "none" THEN AttemptHandler(attempt, tf_max_retries)
    ELSE IF Len(r.value) = count THEN BatchReturn(r.value)
    ELSE IF Len(r.value) > 0 THEN BatchReturn(Take(r.value, count))
    ELSE NextIteration(attempt, tf_max_retries)

\* _generate_true_false_questions, lines 195-220.
tf_attempt(count, attempt, outcome) ==
    IF outcome.kind = "exception" THEN AttemptHandler(attempt, tf_max_retries)
    ELSE IF Truthy(outcome.text)
    THEN tf_accept(extract_json_from_response(outcome.text, "true_false"),
                   count, attempt)
    ELSE NextIteration(attempt, tf_max_retries)

\* ---------------------------------------------------------- generate_quiz

\* question_types: None, or a list of type names (its members matter only).
NoTypes == [isNone |-> TRUE, names |-> {}]

TypeList(names) == [isNone |-> FALSE, names |-> names]

\* Lines 88-89
DefaultTypes(question_types) ==
    IF question_types.isNone THEN {"Multiple Choice", "True/False"}
    ELSE question_types.names

\* int(x * 0.7) for an int x >= 0, in IEEE double arithmetic: the product is
\* the double nearest to 7x/10, which falls just below the integer 7x/10 for
\* the listed multiples of 10 (and for no other x below 330).
IntOfSeventyPercent(x) ==
    IF x \in {90, 170, 180} THEN (7 * x) \div 10 - 1 ELSE (7 * x) \div 10

\* Lines 98-101 with a plain else in place of the elif of line 98: every
\* request that does not name both types counts as multiple choice only.
mc_count_for_else(n, types) ==
    IF "Multiple Choice" \in types /\ "True/False" \in types
    THEN IntOfSeventyPercent(n)
    ELSE n

\* Lines 92-101
mc_count_for(n, types) ==
    IF "Multiple Choice" \in types /\ "True/False" \in types
    THEN IntOfSeventyPercent(n)
    ELSE IF "Multiple Choice" \in types THEN n
    ELSE 0

tf_count_for(n, types) ==
    IF "Multiple Choice" \in types /\ "True/False" \in types
    THEN n - IntOfSeventyPercent(n)
    ELSE IF "Multiple Choice" \in types THEN 0
    ELSE IF "True/False" \in types THEN n
    ELSE 0

\* Lines 88-101
mc_count_of(n, types) == mc_count_for(n, DefaultTypes(types))

tf_count_of(n, types) == tf_count_for(n, DefaultTypes(types))

\* ------------------------------------------ what the model may answer

QText(i) == "Q" \o ToString(i)

\* An object as the multiple-choice prompt asks for it, one as the
\* true/false prompt asks for it, and one that lacks its correct_answer.
McShaped(i) ==
    [question |-> QText(i), options |-> OptionList(4), correct_answer |-> "A",
     explanation |-> "why"]

TfShaped(i) == [question |-> QText(i), correct_answer |-> "True", explanation |-> "why"]

NoAnswer(i) == [question |-> QText(i), explanation |-> "why"]

\* The i-th element of an answer: all of one shape, or ("mixed") complete
\* multiple-choice objects at the even places only.
LLMElement(shape, i) ==
    CASE shape = "mc"    -> ObjLx(McShaped(i), {})
      [] shape = "tf"    -> ObjLx(TfShaped(i), {})
      [] shape = "mixed" -> IF i % 2 = 1 THEN ObjLx(NoAnswer(i), {})
                            ELSE ObjLx(McShaped(i), {})

LLMShapes == {"mc", "tf", "mixed"}

\* Answers of up to MaxN + 1 elements: one more than any count asked for.
LLMArrays ==
    { [i \in 1..n |-> LLMElement(shape, i)] : shape \in LLMShapes, n \in 0..(MaxN + 1) }

LLMTexts ==
    { ArrayText(a, "plain") : a \in LLMArrays }
    \cup { <<Lx("FENCE"), Lx("JSON"), Lx("WS")>> \o ArrayText(a, "trailing")
           \o <<Lx("WS"), Lx("FENCE")>> : a \in LLMArrays }
    \cup { <<Lx("PROSE")>>, <<Lx("WS")>> }

LLMOutcomes ==
    {LLMException, LLMResponse(NotStr), LLMResponse(Str(<<>>))}
    \cup { LLMResponse(Str(t)) : t \in LLMTexts }

\* The arguments of generate_quiz.
TypeArgs ==
    {NoTypes} \cup { TypeList(names) : names \in SUBSET {"Multiple Choice", "True/False"} }

Difficulties == {"Medium", "Hard"}

\* ---------------------------------------------- a batch, start to end

\* _generate_multiple_choice_questions(text, count, difficulty) given how
\* its LLM calls end (outcomes[1] the first call's, outcomes[2] the second's).
RECURSIVE mc_loop(_, _, _)
RECURSIVE mc_loop_next(_, _, _, _)
mc_loop(count, attempt, outcomes) ==
    mc_loop_next(count, attempt, outcomes,
                 mc_attempt(count, attempt, outcomes[attempt + 1]))

mc_loop_next(count, attempt, outcomes, step) ==
    IF step.status = "continue" THEN mc_loop(count, attempt + 1, outcomes) ELSE step

generate_multiple_choice_questions(count, outcomes) == mc_loop(count, 0, outcomes)

\* _generate_true_false_questions(text, count, difficulty)
RECURSIVE tf_loop(_, _, _)
RECURSIVE tf_loop_next(_, _, _, _)
tf_loop(count, attempt, outcomes) ==
    tf_loop_next(count, attempt, outcomes,
                 tf_attempt(count, attempt, outcomes[attempt + 1]))

tf_loop_next(count, attempt, outcomes, step) ==
    IF step.status = "continue" THEN tf_loop(count, attempt + 1, outcomes) ELSE step

generate_true_false_questions(count, outcomes) == tf_loop(count, 0, outcomes)

\* Lines 103-115 given how the two batches end, when they are called.
AssembleQuiz(m_count, t_count, mc_end, tf_end) ==
    IF m_count > 0 /\ mc_end.status = "raise" THEN Raise(mc_end.exc)
    ELSE IF t_count > 0 /\ tf_end.status = "raise" THEN Raise(tf_end.exc)
    ELSE Return((IF m_count > 0 THEN mc_end.value ELSE <<>>)
                \o (IF t_count > 0 THEN tf_end.value ELSE <<>>))

\* generate_quiz(text, num_questions, difficulty, question_types), lines
\* 88-115, given how the two batches end.
generate_quiz(n, types, mc_end, tf_end) ==
    AssembleQuiz(mc_count_of(n, types), tf_count_of(n, types), mc_end, tf_end)

\* ---------------------------------------------------------- PDFProcessor

pypdf2_min_chars == 50

unstructured_min_chars == 100

\* A str with so many characters left by strip(), and None.
TextOf(content, stripped) == [isNone |-> FALSE, content |-> content, stripped |-> stripped]

NoneText == [isNone |-> TRUE, content |-> "None", stripped |-> 0]

\* An uploaded PDF: whether PyPDF2 can read it, how many characters (after
\* strip) PyPDF2 extracts, and how many the unstructured library does (-1 when
\* the library is not installed or fails).
PdfFile(readable, pypdf2, unstructured) ==
    [isNone |-> FALSE, readable |-> readable, pypdf2 |-> pypdf2,
     unstructured |-> unstructured]

NoFile == [isNone |-> TRUE, readable |-> FALSE, pypdf2 |-> 0, unstructured |-> -1]

\* _extract_with_pypdf2, lines 75-98: an exception is logged and raised again.
extract_with_pypdf2(file) ==
    IF ~file.readable THEN Raise("PdfReadError")
    ELSE Return(TextOf("pypdf2 text", file.pypdf2))

\* _extract_with_unstructured, lines 45-71: None on any exception.
extract_with_unstructured(file) ==
    IF file.unstructured < 0 THEN Return(NoneText)
    ELSE Return(TextOf("unstructured text", file.unstructured))

\* "text and len(text.strip()) > n"
LongerThan(t, n) == ~t.isNone /\ t.stripped > n

\* Lines 33-37
ExtractFallback(u) ==
    IF LongerThan(u.value, unstructured_min_chars) THEN Return(u.value)
    ELSE Return(TextOf("No readable text could be extracted from this PDF.", 50))

\* Lines 28-37 for what _extract_with_pypdf2 ended in
ExtractBody(p, file) ==
    IF p.exc # "none" THEN p
    ELSE IF LongerThan(p.value, pypdf2_min_chars) THEN p
    ELSE ExtractFallback(extract_with_unstructured(file))

\* Lines 39-41
ExtractHandler(r) ==
    IF r.exc # "none" THEN Return(TextOf("Error processing PDF: ...", 25)) ELSE r

\* PDFProcessor.extract_text_from_pdf(file_path), lines 26-41
extract_text_from_pdf(file) == ExtractHandler(ExtractBody(extract_with_pypdf2(file), file))

\* ------------------------------------------------------- app.py, the script

slider_min == 5

slider_max == 50

slider_step == 5

SliderValues ==
    { n \in slider_min..slider_max : (n - slider_min) % slider_step = 0 /\ n <= MaxSlider }

\* st.session_state.quiz_data: None or a list
NoQuiz == [isNone |-> TRUE, list |-> <<>>]

QuizList(l) == [isNone |-> FALSE, list |-> l]

\* What the PDF block leaves: the two session values, the message shown
\* ("" when the block is not entered) and the file the text was taken from.
PdfState(processed, etext, msg, from) ==
    [pdf_processed |-> processed, extracted_text |-> etext, message |-> msg,
     processed_from |-> from]

\* Lines 202-216 for the text extract_text_from_pdf returned
StoreExtracted(r, file, processed, etext, from) ==
    IF r.exc # "none" THEN PdfState(processed, etext, "Error processing PDF", from)
    ELSE IF r.value.stripped > 0
    THEN PdfState(TRUE, r.value, "PDF processed successfully", file)
    ELSE PdfState(processed, etext, "No text could be extracted", from)

\* Line 190 without `and not st.session_state.pdf_processed`: the upload is
\* processed in every run.
PdfBlockEveryRun(file, tmp_ok, processed, etext, from) ==
    IF ~file.isNone
    THEN IF ~tmp_ok THEN PdfState(processed, etext, "Error processing PDF", from)
         ELSE StoreExtracted(extract_text_from_pdf(file), file, processed, etext, from)
    ELSE PdfState(processed, etext, "", from)

\* Lines 190-222: the block that processes the upload.  tmp_ok: the temporary
\* file could be written (otherwise line 221 handles the exception).
PdfBlock(file, tmp_ok, processed, etext, from) ==
    IF ~file.isNone /\ ~processed
    THEN IF ~tmp_ok THEN PdfState(processed, etext, "Error processing PDF", from)
         ELSE StoreExtracted(extract_text_from_pdf(file), file, processed, etext, from)
    ELSE PdfState(processed, etext, "", from)

\* Line 240 put before the test of line 239: whatever generate_quiz returned
\* is stored.
StoreQuizUntested(r, old) ==
    IF r.exc # "none" THEN [quiz_data |-> old, message |-> "Error generating quiz"]
    ELSE IF r.value # <<>>
    THEN [quiz_data |-> QuizList(r.value), message |-> "Quiz generated successfully"]
    ELSE [quiz_data |-> QuizList(r.value), message |-> "Failed to generate quiz"]

\* Lines 239-246 for how the generate_quiz call ended (line 245 handles an
\* exception): the new quiz_data and the message.
StoreQuiz(r, old) ==
    IF r.exc # "none" THEN [quiz_data |-> old, message |-> "Error generating quiz"]
    ELSE IF r.value # <<>>
    THEN [quiz_data |-> QuizList(r.value), message |-> "Quiz generated successfully"]
    ELSE [quiz_data |-> old, message |-> "Failed to generate quiz"]

\* The uploads followed: an unreadable file, a file neither extractor gets
\* text from, one with texts at the two thresholds, one the unstructured
\* library reads past its threshold, and one PyPDF2 reads past its own.
PdfFiles ==
    { PdfFile(FALSE, 0, -1),
      PdfFile(TRUE, 0, -1),
      PdfFile(TRUE, pypdf2_min_chars, unstructured_min_chars),
      PdfFile(TRUE, pypdf2_min_chars, unstructured_min_chars + 1),
      PdfFile(TRUE, pypdf2_min_chars + 1, -1) }

\* The answers of the LLM followed in a session, for a batch that asks for
\* `count` questions: a failed call, an empty text, an array of count complete
\* objects and one of count + 1 objects of which every other one is complete.
SessionOutcomes(count) ==
    { LLMException, LLMResponse(Str(<<>>)),
      LLMResponse(Str(ArrayText([i \in 1..count |-> LLMElement("mc", i)], "plain"))),
      LLMResponse(Str(ArrayText([i \in 1..(count + 1) |-> LLMElement("mixed", i)], "plain"))) }

\* How the batch for `count` questions can end, over every pair of outcomes
\* of its LLM calls.
MCBatchEnds ==
    [count \in 1..MaxSlider |->
        { generate_multiple_choice_questions(count, o) :
            o \in [1..max_retries -> SessionOutcomes(count)] }]

TFBatchEnds ==
    [count \in 1..MaxSlider |->
        { generate_true_false_questions(count, o) :
            o \in [1..tf_max_retries -> SessionOutcomes(count)] }]

McEnds(count) == IF count > 0 THEN MCBatchEnds[count] ELSE {BatchReturn(<<>>)}

TfEnds(count) == IF count > 0 THEN TFBatchEnds[count] ELSE {BatchReturn(<<>>)}

\* The selections of the multiselect (line 162).
TypeSelections == SUBSET {"Multiple Choice", "True/False"}

\* How a generate_quiz call with these arguments can end.
GenerateQuizEnds ==
    [n \in SliderValues, names \in TypeSelections |->
        { generate_quiz(n, TypeList(names), m, t) :
            m \in McEnds(mc_count_of(n, TypeList(names))),
            t \in TfEnds(tf_count_of(n, TypeList(names))) }]

\* ------------------------------------------------------------------ state

VARIABLES
    rx_text,        \* recovery check: response_text
    rx_type,        \* recovery check: question_type
    rx_pc,          \* recovery check: "call" before the call, "returned" after
    rx_out,         \* recovery check: how the call ended (Return or Raise)
    vq_question,    \* validator check: the question dictionary
    vq_pc,          \* validator check: "call" before the call, "returned" after
    vq_out,         \* validator check: how the call ended (Return or Raise)
    pc,             \* generate_quiz: "idle" before the call, "mc" (line 106),
                    \*   "tf" (line 111), "return" (line 115, or an exception
                    \*   leaving), "returned" after the call
    text,           \* generate_quiz: argument text
    num_questions,  \* generate_quiz: argument num_questions
    difficulty,     \* generate_quiz: argument difficulty
    question_types, \* generate_quiz: argument question_types
    mc_count,       \* generate_quiz: local mc_count
    tf_count,       \* generate_quiz: local tf_count
    questions,      \* generate_quiz: local questions
    mc_questions,   \* generate_quiz: local mc_questions
    tf_questions,   \* generate_quiz: local tf_questions
    attempt,        \* the loop variable of the batch that is running
    raised,         \* the exception leaving generate_quiz, or "none"
    result,         \* how the last generate_quiz call ended (Return or Raise)
    llm_log,        \* the LLM calls of the current generate_quiz call, in order
    uploaded_file,  \* app: the file_uploader's value (NoFile for None)
    api_key,        \* app: the key from the environment or the text input
    pdf_processed,  \* app: st.session_state.pdf_processed
    extracted_text, \* app: st.session_state.extracted_text
    quiz_data,      \* app: st.session_state.quiz_data
    message,        \* app: the messages of the last script run, PDF block first
    processed_from, \* app: the upload extracted_text was taken from
    generate_call,  \* app: the text given to generate_quiz in the last run
    ql_quiz,        \* the quiz list an export or validate_quiz_data is given
    ql_op,          \* which of them is called
    ql_pc,
    ql_out,         \* what the call ends in
    pt_n,           \* the num_questions the partition is computed for
    pt_types,       \* its question_types
    pt_pc,
    pt_out          \* the mc_count and tf_count computed

rx_vars == <<rx_text, rx_type, rx_pc, rx_out>>

vq_vars == <<vq_question, vq_pc, vq_out>>

gq_vars ==
    <<pc, text, num_questions, difficulty, question_types, mc_count, tf_count,
      questions, mc_questions, tf_questions, attempt, raised, result, llm_log>>

app_vars ==
    <<uploaded_file, api_key, pdf_processed, extracted_text, quiz_data, message,
      processed_from, generate_call>>

ql_vars == <<ql_quiz, ql_op, ql_pc, ql_out>>

pt_vars == <<pt_n, pt_types, pt_pc, pt_out>>

vars == <<rx_vars, vq_vars, gq_vars, app_vars, ql_vars, pt_vars>>

\* The recovery check, and the validator check, not in use.
RecoveryIdle ==
    /\ rx_text = NotStr
    /\ rx_type = "multiple_choice"
    /\ rx_pc = "idle"
    /\ rx_out = Return(<<>>)

ValidatorIdle ==
    /\ vq_question = [question |-> ""]
    /\ vq_pc = "idle"
    /\ vq_out = Return(FALSE)

QuizListIdle ==
    /\ ql_quiz = <<>>
    /\ ql_op = "none"
    /\ ql_pc = "idle"
    /\ ql_out = Return(FALSE)

PartitionIdle ==
    /\ pt_n = 0
    /\ pt_types = NoTypes
    /\ pt_pc = "idle"
    /\ pt_out = [mc_count |-> 0, tf_count |-> 0]

\* The session not in use.
AppIdle ==
    /\ uploaded_file = NoFile
    /\ api_key = ""
    /\ pdf_processed = FALSE
    /\ extracted_text = TextOf("", 0)
    /\ quiz_data = NoQuiz
    /\ message = <<"", "">>
    /\ processed_from = NoFile
    /\ generate_call = NoneText

\* No generate_quiz call made yet.
QuizIdle ==
    /\ pc = "idle"
    /\ text = ""
    /\ num_questions = 0
    /\ difficulty = "Medium"
    /\ question_types = NoTypes
    /\ mc_count = 0
    /\ tf_count = 0
    /\ questions = <<>>
    /\ mc_questions = <<>>
    /\ tf_questions = <<>>
    /\ attempt = 0
    /\ raised = "none"
    /\ result = Return(<<>>)
    /\ llm_log = <<>>

\* ------------------------------------------- the recovery, applied once

InitRecovery ==
    /\ rx_text \in RecoveryInputs
    /\ rx_type \in Tags
    /\ rx_pc = "call"
    /\ rx_out = Return(<<>>)
    /\ ValidatorIdle
    /\ QuizIdle
    /\ QuizListIdle
    /\ PartitionIdle
    /\ AppIdle

ExtractJson ==
    /\ rx_pc = "call"
    /\ rx_out' = extract_json_from_response(rx_text, rx_type)
    /\ rx_pc' = "returned"
    /\ UNCHANGED <<rx_text, rx_type, vq_vars, gq_vars, app_vars, ql_vars, pt_vars>>

NextRecovery == ExtractJson

SpecRecovery == InitRecovery /\ [][NextRecovery]_vars


\* ------------------------------------------------------ schema validator

\* Line 211 without its isinstance test: any options of length 4 pass.
validate_question_data_any_sized(question) ==
    IF ~({"question", "correct_answer", "type"} \subseteq DOMAIN question)
    THEN Return(FALSE)
    ELSE IF question["type"] = "multiple_choice"
    THEN IF "options" \notin DOMAIN question THEN Return(FALSE)
         ELSE IF ~question["options"].sized THEN Raise("TypeError")
         ELSE IF question["options"].len # 4 THEN Return(FALSE)
         ELSE IF question["correct_answer"] \notin {"A", "B", "C", "D"}
              THEN Return(FALSE)
         ELSE Return(TRUE)
    ELSE IF question["type"] = "true_false"
    THEN IF question["correct_answer"] \notin {"True", "False"} THEN Return(FALSE)
         ELSE Return(TRUE)
    ELSE Return(FALSE)

\* utils.validate_question_data(question), lines 201-223
validate_question_data(question) ==
    IF ~({"question", "correct_answer", "type"} \subseteq DOMAIN question)
    THEN Return(FALSE)
    ELSE IF question["type"] = "multiple_choice"
    THEN IF "options" \notin DOMAIN question THEN Return(FALSE)
         ELSE IF ~question["options"].isList \/ question["options"].len # 4
              THEN Return(FALSE)
         ELSE IF question["correct_answer"] \notin {"A", "B", "C", "D"}
              THEN Return(FALSE)
         ELSE Return(TRUE)
    ELSE IF question["type"] = "true_false"
    THEN IF question["correct_answer"] \notin {"True", "False"} THEN Return(FALSE)
         ELSE Return(TRUE)
    ELSE Return(FALSE)

\* ----------------------------------------- inputs of the validator check

Restrict(f, D) == [x \in D |-> f[x]]

QuestionValues == {"", "Q1"}

AnswerValues == {"A", "B", "C", "D", "E", "True", "False", "true"}

TypeValues == {"multiple_choice", "true_false", "essay"}

OptionValues ==
    {OptionList(n) : n \in 0..MaxOptions} \cup {OptionString(4), OptionNumber}

\* Every dictionary with some of the four keys, each with one of the values.
QuestionDicts ==
    { Restrict(full, D) :
        full \in [question : QuestionValues, correct_answer : AnswerValues,
                  type : TypeValues, options : OptionValues],
        D \in SUBSET {"question", "correct_answer", "type", "options"} }

\* --------------------------------------- the validator, applied once

InitValidator ==
    /\ vq_question \in QuestionDicts
    /\ vq_pc = "call"
    /\ vq_out = Return(FALSE)
    /\ RecoveryIdle
    /\ QuizIdle
    /\ QuizListIdle
    /\ PartitionIdle
    /\ AppIdle

ValidateQuestion ==
    /\ vq_pc = "call"
    /\ vq_out' = validate_question_data(vq_question)
    /\ vq_pc' = "returned"
    /\ UNCHANGED <<vq_question, rx_vars, gq_vars, app_vars, ql_vars, pt_vars>>

NextValidator == ValidateQuestion

SpecValidator == InitValidator /\ [][NextValidator]_vars


\* ------------------------------------------- generate_quiz, call by call

Init ==
    /\ QuizIdle
    /\ QuizListIdle
    /\ PartitionIdle
    /\ RecoveryIdle
    /\ ValidatorIdle
    /\ AppIdle

\* One entry of llm_log: the request sent, how the call ended ("exception",
\* "no_text" for a response without text, "text") and what the recovery
\* made of the text.
LogEntry(batch, request, outcome) ==
    [batch |-> batch, attempt |-> attempt, request |-> request,
     kind |-> IF outcome.kind = "exception" THEN "exception"
              ELSE IF Truthy(outcome.text) THEN "text" ELSE "no_text",
     recovered |-> IF outcome.kind = "response" /\ Truthy(outcome.text)
                   THEN extract_json_from_response(outcome.text, batch).value
                   ELSE <<>>]

\* The call of generate_quiz, lines 88-103.  A QuizGenerator keeps nothing
\* from one call to the next, so one call is followed from start to end.
CallGenerateQuiz ==
    /\ pc = "idle"
    /\ \E n \in 0..MaxN, d \in Difficulties, types \in TypeArgs :
        /\ text' = "chapter"
        /\ num_questions' = n
        /\ difficulty' = d
        /\ question_types' = types
        /\ mc_count' = mc_count_of(n, types)
        /\ tf_count' = tf_count_of(n, types)
    /\ questions' = <<>>
    /\ mc_questions' = <<>>
    /\ tf_questions' = <<>>
    /\ attempt' = 0
    /\ raised' = "none"
    /\ llm_log' = <<>>
    /\ pc' = "mc"
    /\ UNCHANGED <<result, rx_vars, vq_vars, app_vars, ql_vars, pt_vars>>

\* Line 106 with mc_count = 0: the batch is skipped.
SkipMultipleChoice ==
    /\ pc = "mc"
    /\ ~(mc_count > 0)
    /\ pc' = "tf"
    /\ UNCHANGED <<text, num_questions, difficulty, question_types, mc_count,
                   tf_count, questions, mc_questions, tf_questions, attempt,
                   raised, result, llm_log, rx_vars, vq_vars, app_vars, ql_vars, pt_vars>>

\* One attempt counter for both batches: the true/false batch goes on from
\* where the multiple-choice batch stopped.
MultipleChoiceStepSharedCounter(step) ==
    CASE step.status = "continue" ->
           /\ attempt' = attempt + 1
           /\ UNCHANGED <<pc, questions, mc_questions, raised>>
      [] step.status = "return" ->
           /\ mc_questions' = step.value
           /\ questions' = questions \o step.value
           /\ attempt' = attempt
           /\ pc' = "tf"
           /\ UNCHANGED raised
      [] step.status = "raise" ->
           /\ raised' = step.exc
           /\ pc' = "return"
           /\ UNCHANGED <<attempt, questions, mc_questions>>

\* Lines 107-108 for the iteration `step` of the batch's loop: the loop goes
\* on, or the batch returns and its list is appended to questions.
MultipleChoiceStep(step) ==
    CASE step.status = "continue" ->
           /\ attempt' = attempt + 1
           /\ UNCHANGED <<pc, questions, mc_questions, raised>>
      [] step.status = "return" ->
           /\ mc_questions' = step.value
           /\ questions' = questions \o step.value
           /\ attempt' = 0
           /\ pc' = "tf"
           /\ UNCHANGED raised
      [] step.status = "raise" ->
           /\ raised' = step.exc
           /\ pc' = "return"
           /\ UNCHANGED <<attempt, questions, mc_questions>>

\* Lines 106-108: one LLM call of the multiple-choice batch and what the
\* loop does with it.
MultipleChoiceAttempt ==
    /\ pc = "mc"
    /\ mc_count > 0
    /\ \E outcome \in LLMOutcomes :
        /\ llm_log' = Append(llm_log,
              LogEntry("multiple_choice", mc_request(text, mc_count, difficulty),
                       outcome))
        /\ MultipleChoiceStep(mc_attempt(mc_count, attempt, outcome))
    /\ UNCHANGED <<text, num_questions, difficulty, question_types, mc_count,
                   tf_count, tf_questions, result, rx_vars, vq_vars, app_vars, ql_vars, pt_vars>>

\* Line 111 with tf_count = 0: the batch is skipped.
SkipTrueFalse ==
    /\ pc = "tf"
    /\ ~(tf_count > 0)
    /\ pc' = "return"
    /\ UNCHANGED <<text, num_questions, difficulty, question_types, mc_count,
                   tf_count, questions, mc_questions, tf_questions, attempt,
                   raised, result, llm_log, rx_vars, vq_vars, app_vars, ql_vars, pt_vars>>

\* Line 113 with the true/false records put in front of the list.
TrueFalseStepInFront(step) ==
    CASE step.status = "continue" ->
           /\ attempt' = attempt + 1
           /\ UNCHANGED <<pc, questions, tf_questions, raised>>
      [] step.status = "return" ->
           /\ tf_questions' = step.value
           /\ questions' = step.value \o questions
           /\ attempt' = 0
           /\ pc' = "return"
           /\ UNCHANGED raised
      [] step.status = "raise" ->
           /\ raised' = step.exc
           /\ pc' = "return"
           /\ UNCHANGED <<attempt, questions, tf_questions>>

\* Lines 112-113 for the iteration `step` of the batch's loop.
TrueFalseStep(step) ==
    CASE step.status = "continue" ->
           /\ attempt' = attempt + 1
           /\ UNCHANGED <<pc, questions, tf_questions, raised>>
      [] step.status = "return" ->
           /\ tf_questions' = step.value
           /\ questions' = questions \o step.value
           /\ attempt' = 0
           /\ pc' = "return"
           /\ UNCHANGED raised
      [] step.status = "raise" ->
           /\ raised' = step.exc
           /\ pc' = "return"
           /\ UNCHANGED <<attempt, questions, tf_questions>>

\* Lines 111-113: one LLM call of the true/false batch.
TrueFalseAttempt ==
    /\ pc = "tf"
    /\ tf_count > 0
    /\ \E outcome \in LLMOutcomes :
        /\ llm_log' = Append(llm_log,
              LogEntry("true_false", tf_request(text, tf_count, difficulty), outcome))
        /\ TrueFalseStep(tf_attempt(tf_count, attempt, outcome))
    /\ UNCHANGED <<text, num_questions, difficulty, question_types, mc_count,
                   tf_count, mc_questions, result, rx_vars, vq_vars, app_vars, ql_vars, pt_vars>>

\* Line 115, or the exception leaving the call.
ReturnQuiz ==
    /\ pc = "return"
    /\ result' = IF raised # "none" THEN Raise(raised) ELSE Return(questions)
    /\ pc' = "returned"
    /\ UNCHANGED <<text, num_questions, difficulty, question_types, mc_count,
                   tf_count, questions, mc_questions, tf_questions, attempt,
                   raised, llm_log, rx_vars, vq_vars, app_vars, ql_vars, pt_vars>>

Next ==
    \/ CallGenerateQuiz
    \/ SkipMultipleChoice
    \/ MultipleChoiceAttempt
    \/ SkipTrueFalse
    \/ TrueFalseAttempt
    \/ ReturnQuiz

Spec == Init /\ [][Next]_vars


\* `if st.session_state.quiz_data:` of lines 251 and 284
QuizShown(quiz) == ~quiz.isNone /\ quiz.list # <<>>

\* Lines 251-281: the quiz the download buttons export, when they are shown.
DownloadOffered(quiz) == IF QuizShown(quiz) THEN quiz.list ELSE <<>>

\* Lines 284-312: the quiz the page displays.
DisplayedQuiz(quiz) == IF QuizShown(quiz) THEN quiz.list ELSE <<>>

\* ------------------------------------------- the session, run by run

\* Lines 121-126, and the key of the environment (line 173), set or not.
InitApp ==
    /\ uploaded_file = NoFile
    /\ api_key \in {"", "env key"}
    /\ pdf_processed = FALSE
    /\ extracted_text = TextOf("", 0)
    /\ quiz_data = NoQuiz
    /\ message = <<"", "">>
    /\ processed_from = NoFile
    /\ generate_call = NoneText
    /\ QuizIdle
    /\ QuizListIdle
    /\ PartitionIdle
    /\ RecoveryIdle
    /\ ValidatorIdle

\* A run of the script in which the button is not pressed: lines 190-222.
RunScript(file, key, tmp_ok) ==
    LET after == PdfBlock(file, tmp_ok, pdf_processed, extracted_text, processed_from)
    IN  /\ uploaded_file' = file
        /\ api_key' = key
        /\ pdf_processed' = after.pdf_processed
        /\ extracted_text' = after.extracted_text
        /\ processed_from' = after.processed_from
        /\ message' = <<after.message, "">>
        /\ generate_call' = NoneText
        /\ UNCHANGED <<quiz_data, gq_vars, rx_vars, vq_vars,
                   ql_vars, pt_vars>>

\* The user picks a file, another file, or removes it.
UploadFile ==
    \E file \in PdfFiles \cup {NoFile}, tmp_ok \in BOOLEAN :
        /\ file # uploaded_file
        /\ RunScript(file, api_key, tmp_ok)

\* The user types a key into the text input of lines 176-180, shown when
\* the environment has none, or clears it.
EnterApiKey ==
    \E key \in {"", "typed key"}, tmp_ok \in BOOLEAN :
        /\ api_key # "env key"
        /\ key # api_key
        /\ RunScript(uploaded_file, key, tmp_ok)

\* The user moves the slider or changes a selection.
ChangeSettings == \E tmp_ok \in BOOLEAN : RunScript(uploaded_file, api_key, tmp_ok)

\* Lines 228-246 for how the constructor and the generate_quiz call end.
GenerateBlock(client_ok, r) ==
    IF client_ok THEN StoreQuiz(r, quiz_data) ELSE StoreQuiz(Raise("ClientError"), quiz_data)

\* The user presses "Generate Quiz Questions", a button the last run showed
\* (line 225).  The run passes the PDF block, whose condition is false, and
\* lines 228-246.
ClickGenerate ==
    /\ pdf_processed /\ api_key # ""
    /\ \E n \in SliderValues, d \in Difficulties,
          names \in TypeSelections, client_ok \in BOOLEAN :
        \E r \in GenerateQuizEnds[n, names] :
            /\ quiz_data' = GenerateBlock(client_ok, r).quiz_data
            /\ message' = <<"", GenerateBlock(client_ok, r).message>>
            /\ generate_call' = IF client_ok THEN extracted_text ELSE NoneText
    /\ UNCHANGED <<uploaded_file, api_key, pdf_processed, extracted_text,
                   processed_from, gq_vars, rx_vars, vq_vars,
                   ql_vars, pt_vars>>

NextApp ==
    \/ UploadFile
    \/ EnterApiKey
    \/ ChangeSettings
    \/ ClickGenerate

SpecApp == InitApp /\ [][NextApp]_vars

\* --------------------------------------- properties of a generate_quiz call

IsMcCall(e) == e.batch = "multiple_choice"

IsTfCall(e) == e.batch = "true_false"

\* The LLM calls of each batch, in order.
McCalls == SelectSeq(llm_log, IsMcCall)

TfCalls == SelectSeq(llm_log, IsTfCall)

McBatchDone == pc \in {"tf", "return", "returned"}

TfBatchDone == pc \in {"return", "returned"}

Returned == pc = "returned" /\ result.exc = "none"

\* The call ended in an exception, in no text, or in a text the recovery got
\* no record from.
FailedCall(e) == e.kind # "text" \/ e.recovered = <<>>

\* The call's answer held more records than its request asked for.
OverProduced(e) == Len(e.recovered) > e.request.contents.count

Min(a, b) == IF a < b THEN a ELSE b

\* The first k entries of s, entry by entry.
PrefixOf(s, k) == [i \in 1..k |-> s[i]]

\* C1: for every requested count, every type set and every sequence of LLM
\* outcomes, the list generate_quiz returns is no longer than num_questions.
C1_LengthAtMostRequested == Returned => Len(result.value) <= num_questions

\* A call of two batches that returned as many records as asked for, one of
\* its LLM calls having answered with more records than its batch asked for.
C1_Witness ==
    /\ Returned
    /\ mc_count > 0 /\ tf_count > 0
    /\ Len(result.value) = num_questions
    /\ \E i \in DOMAIN llm_log : OverProduced(llm_log[i])

\* C2: each batch makes at most 2 LLM calls; after a second call the batch
\* is over, so no third call follows; and when both calls failed (exception,
\* empty text, or no record recovered) the batch's output is empty.
C2_AtMostTwoAttempts ==
    /\ Len(McCalls) <= 2
    /\ Len(TfCalls) <= 2
    /\ Len(McCalls) = 2 => McBatchDone
    /\ Len(TfCalls) = 2 => TfBatchDone
    /\ (Len(McCalls) = 2 /\ FailedCall(McCalls[1]) /\ FailedCall(McCalls[2]))
         => mc_questions = <<>>
    /\ (Len(TfCalls) = 2 /\ FailedCall(TfCalls[1]) /\ FailedCall(TfCalls[2]))
         => tf_questions = <<>>

\* Both batches used both attempts and failed in each of the three ways.
C2_Witness ==
    /\ pc = "returned"
    /\ Len(McCalls) = 2 /\ McCalls[1].kind = "exception" /\ McCalls[2].kind = "text"
    /\ FailedCall(McCalls[2])
    /\ Len(TfCalls) = 2 /\ TfCalls[1].kind = "no_text" /\ TfCalls[2].kind = "exception"
    /\ result = Return(<<>>)

\* C3: a batch whose accepting attempt recovered r > 0 records returns the
\* first min(r, count) of them in their order: the first count when r > count,
\* all r otherwise.
C3_PrefixOfRecovered ==
    /\ (McBatchDone /\ McCalls # <<>> /\ ~FailedCall(McCalls[Len(McCalls)]))
         => mc_questions
              = PrefixOf(McCalls[Len(McCalls)].recovered,
                         Min(Len(McCalls[Len(McCalls)].recovered), mc_count))
    /\ (TfBatchDone /\ TfCalls # <<>> /\ ~FailedCall(TfCalls[Len(TfCalls)]))
         => tf_questions
              = PrefixOf(TfCalls[Len(TfCalls)].recovered,
                         Min(Len(TfCalls[Len(TfCalls)].recovered), tf_count))

\* The multiple-choice batch recovered more than it asked for and returned
\* exactly its count; the true/false batch recovered fewer and returned them.
C3_Witness ==
    /\ pc = "returned"
    /\ McCalls # <<>> /\ OverProduced(McCalls[Len(McCalls)])
    /\ mc_count > 1 /\ Len(mc_questions) = mc_count
    /\ TfCalls # <<>> /\ ~FailedCall(TfCalls[Len(TfCalls)])
    /\ Len(tf_questions) < tf_count

\* Each batch was called and its accepting attempt recovered exactly the
\* count asked for.
BothBatchesExact ==
    /\ mc_count > 0 /\ McCalls # <<>>
    /\ Len(McCalls[Len(McCalls)].recovered) = mc_count
    /\ tf_count > 0 /\ TfCalls # <<>>
    /\ Len(TfCalls[Len(TfCalls)].recovered) = tf_count

\* C4: the returned list is the multiple-choice batch's output followed by
\* the true/false batch's: no record tagged true_false precedes one tagged
\* multiple_choice, and when both batches recover exactly their sub-counts
\* the list has exactly num_questions records.
C4_McBeforeTf ==
    Returned =>
        /\ result.value = mc_questions \o tf_questions
        /\ \A i, j \in DOMAIN result.value :
             i < j => ~(result.value[i].type = "true_false"
                        /\ result.value[j].type = "multiple_choice")
        /\ BothBatchesExact => Len(result.value) = num_questions

\* Both batches exact, with more than one record of each tag returned.
C4_Witness ==
    /\ Returned
    /\ BothBatchesExact
    /\ Len(mc_questions) > 1 /\ Len(tf_questions) > 1
    /\ result.value[1].type = "multiple_choice"
    /\ result.value[Len(result.value)].type = "true_false"

\* C5: for every N >= 0 and every subset of {Multiple Choice, True/False}
\* the sub-counts generate_quiz computes are non-negative and sum to N.
C5_SubCountsSumToN ==
    pc # "idle" =>
        /\ mc_count >= 0
        /\ tf_count >= 0
        /\ mc_count + tf_count = num_questions

\* C8: no LLM failure or unparseable answer makes generate_quiz raise; when
\* the multiple-choice batch yields nothing the true/false batch is still
\* called, and when the true/false batch yields nothing the multiple-choice
\* records are what is returned.
C8_FailuresStayInTheBatch ==
    /\ raised = "none"
    /\ pc = "returned" => result.exc = "none"
    /\ (pc = "returned" /\ mc_count > 0 /\ mc_questions = <<>> /\ tf_count > 0)
         => TfCalls # <<>>
    /\ (pc = "returned" /\ tf_count > 0 /\ tf_questions = <<>>)
         => result = Return(mc_questions)

\* The multiple-choice batch failed twice, by an exception and by a text with
\* no array in it; the true/false batch was called and its records returned.
C8_Witness ==
    /\ pc = "returned"
    /\ Len(McCalls) = 2 /\ McCalls[1].kind = "exception" /\ McCalls[2].kind = "text"
    /\ mc_questions = <<>>
    /\ TfCalls # <<>>
    /\ result.exc = "none" /\ result.value # <<>>
    /\ result.value = tf_questions

\* The data model's invariant of one record.
DataModelInvariant(q) ==
    /\ "question" \in DOMAIN q /\ q.question # ""
    /\ q.type = "multiple_choice" =>
         /\ "options" \in DOMAIN q
         /\ q.options = OptionList(4)
         /\ q.correct_answer \in {"A", "B", "C", "D"}
    /\ q.type = "true_false" => q.correct_answer \in {"True", "False"}

\* C9: every record of the list generate_quiz returns satisfies the data
\* model's invariant: a non-empty question; tagged multiple_choice, exactly 4
\* options and an answer among A-D; tagged true_false, an answer True or False.
C9_RecordsSatisfyInvariant ==
    Returned => \A i \in DOMAIN result.value : DataModelInvariant(result.value[i])

\* ------------------------------------------- properties of the recovery

\* The text has no '[' with a ']' after it: no '[', no ']', or its last ']'
\* before its first '['.
NoBracketPair(t) ==
    ~ \E i, j \in 1..Len(t) : i <= j /\ ContainsLB(t[i]) /\ ContainsRB(t[j])

IsSequence(v) == DOMAIN v = 1..Len(v)

\* C6: the recovery raises for no input and no tag: it returns a sequence,
\* the empty one whenever the text without its fences has no '[', no ']', or
\* its last ']' before its first '['.
C6_RecoveryNeverRaises ==
    rx_pc = "returned" =>
        /\ rx_out.exc = "none"
        /\ IsSequence(rx_out.value)
        /\ (rx_text.isStr /\ NoBracketPair(StripFences(rx_text.lexemes)))
             => rx_out.value = <<>>

\* A text with a '[' and no ']' after it, recovered to the empty sequence.
C6_Witness ==
    /\ rx_pc = "returned"
    /\ rx_text.isStr
    /\ \E i \in 1..Len(rx_text.lexemes) : ContainsLB(rx_text.lexemes[i])
    /\ NoBracketPair(StripFences(rx_text.lexemes))
    /\ rx_out = Return(<<>>)

\* ------------------------------------------ properties of the validator

\* The schema a record has to satisfy.
SchemaAccepts(q) ==
    /\ {"question", "correct_answer", "type"} \subseteq DOMAIN q
    /\ \/ /\ q.type = "multiple_choice"
          /\ "options" \in DOMAIN q
          /\ q.options \in {OptionList(n) : n \in {4}}
          /\ q.correct_answer \in {"A", "B", "C", "D"}
       \/ /\ q.type = "true_false"
          /\ q.correct_answer \in {"True", "False"}

\* C7: the validator accepts a record iff it has question, correct_answer and
\* type and is either multiple_choice with a list of exactly 4 options and an
\* answer among A-D, or true_false with an answer True or False; a record of
\* any other type is rejected.
C7_ValidatorIsTheSchema ==
    vq_pc = "returned" =>
        /\ vq_out.exc = "none"
        /\ vq_out.value = TRUE <=> SchemaAccepts(vq_question)

\* An accepted multiple-choice record.
C7_Witness ==
    /\ vq_pc = "returned"
    /\ vq_out = Return(TRUE)
    /\ vq_question.type = "multiple_choice"

\* --------------------------------------------- properties of a session

\* The extraction of the file fails: the file cannot be read, or neither
\* extractor gets a text past its threshold.
ExtractionFails(file) ==
    /\ ~file.isNone
    /\ \/ ~file.readable
       \/ /\ file.pypdf2 <= pypdf2_min_chars
          /\ file.unstructured <= unstructured_min_chars

\* C10: when the extraction of an upload fails, pdf_processed stays False and
\* no generate_quiz call is made for that upload.
C10_FailedExtractionEnablesNothing ==
    /\ pdf_processed => ~ExtractionFails(processed_from)
    /\ ~generate_call.isNone => ~ExtractionFails(processed_from)

\* ------------------------------------------------ utils.py, the exports

\* Lines 160-170 (92-105): what the first loop makes of one question: the
\* KeyError of a key it reads and the question lacks, the TypeError of
\* options that cannot be iterated, or the question's text and the number of
\* option lines written under it.
OptionLines(question) ==
    IF question["type"] = "multiple_choice" THEN question["options"].len
    ELSE IF question["type"] = "true_false" THEN 2
    ELSE 0

QuestionEntry(question) ==
    IF "question" \notin DOMAIN question THEN Raise("KeyError")
    ELSE IF "type" \notin DOMAIN question THEN Raise("KeyError")
    ELSE IF question["type"] = "multiple_choice" /\ "options" \notin DOMAIN question
    THEN Raise("KeyError")
    ELSE IF question["type"] = "multiple_choice" /\ ~question["options"].sized
    THEN Raise("TypeError")
    ELSE Return([question |-> question["question"],
                 option_lines |-> OptionLines(question)])

\* Lines 184-186 (117-119): the line of the answer key.
AnswerEntry(question) ==
    IF "correct_answer" \notin DOMAIN question THEN Raise("KeyError")
    ELSE Return([correct_answer |-> question["correct_answer"],
                 explanation |-> IF "explanation" \in DOMAIN question
                                 THEN question["explanation"] ELSE ""])

\* Lines 159-174 (90-107): the loop over the questions; `done` is what it
\* has written.
RECURSIVE QuestionLoop(_, _)
RECURSIVE QuestionLoopStep(_, _, _)
QuestionLoop(quiz, done) ==
    IF quiz = <<>> THEN Return(done)
    ELSE QuestionLoopStep(QuestionEntry(Head(quiz)), Tail(quiz), done)

QuestionLoopStep(entry, rest, done) ==
    IF entry.exc # "none" THEN Raise(entry.exc)
    ELSE QuestionLoop(rest, Append(done, entry.value))

\* Lines 183-187 (116-122): the loop of the answer key.
RECURSIVE AnswerLoop(_, _)
RECURSIVE AnswerLoopStep(_, _, _)
AnswerLoop(quiz, done) ==
    IF quiz = <<>> THEN Return(done)
    ELSE AnswerLoopStep(AnswerEntry(Head(quiz)), Tail(quiz), done)

AnswerLoopStep(entry, rest, done) ==
    IF entry.exc # "none" THEN Raise(entry.exc)
    ELSE AnswerLoop(rest, Append(done, entry.value))

\* The document: its format, the "Total Questions" of its head (line 147,
\* 76), the questions and the answer key.
Document(format, total, entries, answers) ==
    [format |-> format, total |-> total, questions |-> entries, answers |-> answers]

ExportAnswerKey(format, total, entries, answers) ==
    IF answers.exc # "none" THEN Raise(answers.exc)
    ELSE Return(Document(format, total, entries, answers.value))

ExportQuestions(format, quiz, entries) ==
    IF entries.exc # "none" THEN Raise(entries.exc)
    ELSE ExportAnswerKey(format, Len(quiz), entries.value, AnswerLoop(quiz, <<>>))

\* export_quiz_to_pdf(quiz_data), lines 20-127
export_quiz_to_pdf(quiz) == ExportQuestions("pdf", quiz, QuestionLoop(quiz, <<>>))

\* export_quiz_to_text(quiz_data), lines 139-189
export_quiz_to_text(quiz) == ExportQuestions("text", quiz, QuestionLoop(quiz, <<>>))

\* ----------------------------------- QuizGenerator.validate_quiz_data

\* Lines 227-238, the body of the loop for one question: FALSE for the
\* `return False` of lines 228, 232, 234 and 238, TRUE when the loop goes on,
\* the TypeError of len() of options that have no length.
CheckQuizQuestion(question) ==
    IF ~({"question", "correct_answer", "type"} \subseteq DOMAIN question)
    THEN Return(FALSE)
    ELSE IF question["type"] = "multiple_choice"
    THEN IF "options" \notin DOMAIN question THEN Return(FALSE)
         ELSE IF ~question["options"].sized THEN Raise("TypeError")
         ELSE IF question["options"].len # 4 THEN Return(FALSE)
         ELSE IF question["correct_answer"] \notin {"A", "B", "C", "D"}
              THEN Return(FALSE)
         ELSE Return(TRUE)
    ELSE IF question["type"] = "true_false"
    THEN IF question["correct_answer"] \notin {"True", "False"} THEN Return(FALSE)
         ELSE Return(TRUE)
    ELSE Return(TRUE)

\* validate_quiz_data(quiz_data), lines 224-240
RECURSIVE validate_quiz_data(_)
RECURSIVE ValidateRest(_, _)
validate_quiz_data(quiz) ==
    IF quiz = <<>> THEN Return(TRUE)
    ELSE ValidateRest(CheckQuizQuestion(Head(quiz)), Tail(quiz))

ValidateRest(checked, rest) ==
    IF checked.exc # "none" THEN Raise(checked.exc)
    ELSE IF ~checked.value THEN Return(FALSE)
    ELSE validate_quiz_data(rest)

\* ------------------------------------------------ inputs: quiz lists

\* Records with all four keys, in and around the schema.
FullRecords ==
    [question : {"Q1"}, correct_answer : {"A", "True"},
     type : {"multiple_choice", "true_false", "essay"},
     options : {OptionList(4), OptionList(3)}]
    \cup [question : {"Q1"}, correct_answer : {"A", "E"}, type : {"multiple_choice"},
          options : {OptionList(4), OptionString(4), OptionNumber}]

\* Records as the recovery returns them when the answer has no options.
RecordsWithoutOptions ==
    [question : {"Q1"}, correct_answer : {"A", "True"},
     type : {"multiple_choice", "true_false"}]

\* Records that lack one of the keys every record needs.
RecordsLackingAKey ==
    { [question |-> "Q1", correct_answer |-> "A", options |-> OptionList(4)],
      [question |-> "Q1", type |-> "true_false"],
      [correct_answer |-> "True", type |-> "true_false"] }

QuizRecords == FullRecords \cup RecordsWithoutOptions \cup RecordsLackingAKey

QuizLists == SeqsUpTo(QuizRecords, MaxQuiz)

\* --------------------- an export or validate_quiz_data, applied once

InitQuizList ==
    /\ ql_quiz \in QuizLists
    /\ ql_op = "none"
    /\ ql_pc = "call"
    /\ ql_out = Return(FALSE)
    /\ RecoveryIdle
    /\ ValidatorIdle
    /\ QuizIdle
    /\ AppIdle
    /\ PartitionIdle

ExportToPdf ==
    /\ ql_pc = "call"
    /\ ql_op' = "export_quiz_to_pdf"
    /\ ql_out' = export_quiz_to_pdf(ql_quiz)
    /\ ql_pc' = "returned"
    /\ UNCHANGED <<ql_quiz, rx_vars, vq_vars, gq_vars, app_vars, pt_vars>>

ExportToText ==
    /\ ql_pc = "call"
    /\ ql_op' = "export_quiz_to_text"
    /\ ql_out' = export_quiz_to_text(ql_quiz)
    /\ ql_pc' = "returned"
    /\ UNCHANGED <<ql_quiz, rx_vars, vq_vars, gq_vars, app_vars, pt_vars>>

ValidateQuizData ==
    /\ ql_pc = "call"
    /\ ql_op' = "validate_quiz_data"
    /\ ql_out' = validate_quiz_data(ql_quiz)
    /\ ql_pc' = "returned"
    /\ UNCHANGED <<ql_quiz, rx_vars, vq_vars, gq_vars, app_vars, pt_vars>>

NextQuizList ==
    \/ ExportToPdf
    \/ ExportToText
    \/ ValidateQuizData

SpecQuizList == InitQuizList /\ [][NextQuizList]_vars

\* ----------------------------------------- properties of the exports

\* The record passes the schema validator of utils.py.
PassesValidator(question) == validate_question_data(question) = Return(TRUE)

\* The records of the list that pass, in their order.
ValidRecords(quiz) == SelectSeq(quiz, PassesValidator)

Exported == ql_pc = "returned" /\ ql_op \in {"export_quiz_to_pdf", "export_quiz_to_text"}

\* C11: the export (PDF or text) of a quiz list with a record that fails the
\* schema validator does not fail: the document holds the records that pass,
\* in their order, and no other.
C11_ExportDropsInvalidRecords ==
    (Exported /\ ValidRecords(ql_quiz) # ql_quiz) =>
        /\ ql_out.exc = "none"
        /\ Len(ql_out.value.questions) = Len(ValidRecords(ql_quiz))
        /\ \A i \in 1..Len(ValidRecords(ql_quiz)) :
             /\ ql_out.value.questions[i].question = ValidRecords(ql_quiz)[i].question
             /\ ql_out.value.answers[i].correct_answer
                  = ValidRecords(ql_quiz)[i].correct_answer

\* C12: validate_quiz_data and validate_question_data are the same predicate:
\* validate_quiz_data returns True for a list iff validate_question_data
\* returns True for each of its records.
C12_ValidatorsAgree ==
    (ql_pc = "returned" /\ ql_op = "validate_quiz_data") =>
        /\ ql_out.exc = "none"
        /\ ql_out.value = TRUE <=> ValidRecords(ql_quiz) = ql_quiz

\* ------------------------------- more properties of a generate_quiz call

\* C13: once an attempt of a batch recovers at least one record (count of
\* them, fewer or more) the batch makes no further LLM call: that attempt is
\* the batch's last and the batch is over, also when fewer than count were
\* recovered and an attempt remains.
C13_NoCallAfterRecords ==
    /\ \A i \in DOMAIN McCalls :
         ~FailedCall(McCalls[i]) => (i = Len(McCalls) /\ McBatchDone)
    /\ \A i \in DOMAIN TfCalls :
         ~FailedCall(TfCalls[i]) => (i = Len(TfCalls) /\ TfBatchDone)

\* Each batch recovered fewer records than its count at its first attempt
\* and made no second call.
C13_Witness ==
    /\ pc = "returned"
    /\ Len(McCalls) = 1 /\ McCalls[1].recovered # <<>>
    /\ Len(McCalls[1].recovered) < mc_count
    /\ Len(TfCalls) = 1 /\ TfCalls[1].recovered # <<>>
    /\ Len(TfCalls[1].recovered) < tf_count

\* C14: when the first attempt of a batch yields no record (an exception, an
\* empty text, or a text nothing is recovered from) the batch is not over
\* before a second attempt; exactly one is made, with the same request, and
\* what it recovers decides the batch's output.
C14_OneRetryDecides ==
    /\ (Len(McCalls) = 1 /\ FailedCall(McCalls[1])) => (pc = "mc" /\ attempt = 1)
    /\ (Len(TfCalls) = 1 /\ FailedCall(TfCalls[1])) => (pc = "tf" /\ attempt = 1)
    /\ (McBatchDone /\ McCalls # <<>> /\ FailedCall(McCalls[1])) =>
         /\ Len(McCalls) = 2
         /\ McCalls[2].request = McCalls[1].request
         /\ mc_questions
              = PrefixOf(McCalls[2].recovered, Min(Len(McCalls[2].recovered), mc_count))
    /\ (TfBatchDone /\ TfCalls # <<>> /\ FailedCall(TfCalls[1])) =>
         /\ Len(TfCalls) = 2
         /\ TfCalls[2].request = TfCalls[1].request
         /\ tf_questions
              = PrefixOf(TfCalls[2].recovered, Min(Len(TfCalls[2].recovered), tf_count))

\* The first multiple-choice call raised and the second one's records were
\* returned; the first true/false call gave a text with nothing to recover,
\* the second one no text, and the batch returned nothing.
C14_Witness ==
    /\ pc = "returned"
    /\ Len(McCalls) = 2 /\ McCalls[1].kind = "exception"
    /\ mc_questions # <<>>
    /\ Len(TfCalls) = 2 /\ TfCalls[1].kind = "text" /\ TfCalls[2].kind = "no_text"
    /\ tf_questions = <<>>

\* C15: within one generate_quiz call every LLM call of the multiple-choice
\* batch comes before the first call of the true/false batch, and the
\* true/false batch has its own 2 attempts: its calls are numbered from 0 and
\* a failed first call is followed by a second, however many calls the
\* multiple-choice batch made.
C15_BatchesInSequence ==
    /\ \A i, j \in DOMAIN llm_log :
         i < j => ~(llm_log[i].batch = "true_false"
                    /\ llm_log[j].batch = "multiple_choice")
    /\ TfCalls # <<>> => McBatchDone
    /\ \A k \in DOMAIN TfCalls : TfCalls[k].attempt = k - 1
    /\ (Len(TfCalls) = 1 /\ FailedCall(TfCalls[1])) => pc = "tf"

\* The multiple-choice batch used both its attempts, and the true/false
\* batch after it used two as well.
C15_Witness ==
    /\ pc = "returned"
    /\ Len(McCalls) = 2
    /\ Len(TfCalls) = 2
    /\ llm_log[3].batch = "true_false" /\ llm_log[3].attempt = 0
    /\ tf_questions # <<>>

\* C16: a type whose sub-count is zero gets no LLM call: with only True/False
\* requested no multiple-choice call is made, with only Multiple Choice no
\* true/false call, and with N = 0 or an empty type list no call at all, and
\* the empty list is returned.
C16_ZeroCountNoCall ==
    pc # "idle" =>
        /\ mc_count = 0 => McCalls = <<>>
        /\ tf_count = 0 => TfCalls = <<>>
        /\ DefaultTypes(question_types) = {"True/False"} => McCalls = <<>>
        /\ DefaultTypes(question_types) = {"Multiple Choice"} => TfCalls = <<>>
        /\ (num_questions = 0 \/ DefaultTypes(question_types) = {}) =>
             /\ llm_log = <<>>
             /\ pc = "returned" => result = Return(<<>>)

\* A call for questions of no type returned the empty list without a call.
C16_Witness ==
    /\ pc = "returned"
    /\ num_questions > 0
    /\ DefaultTypes(question_types) = {}
    /\ llm_log = <<>>
    /\ result = Return(<<>>)

\* ------------------------------- the partition of lines 88-101, applied once

InitPartition ==
    /\ pt_n \in 0..MaxCount
    /\ pt_types \in TypeArgs
    /\ pt_pc = "call"
    /\ pt_out = [mc_count |-> 0, tf_count |-> 0]
    /\ RecoveryIdle
    /\ ValidatorIdle
    /\ QuizIdle
    /\ AppIdle
    /\ QuizListIdle

\* Lines 88-101 of generate_quiz
Partition ==
    /\ pt_pc = "call"
    /\ pt_out' = [mc_count |-> mc_count_of(pt_n, pt_types),
                  tf_count |-> tf_count_of(pt_n, pt_types)]
    /\ pt_pc' = "returned"
    /\ UNCHANGED <<pt_n, pt_types, rx_vars, vq_vars, gq_vars, app_vars, ql_vars>>

NextPartition == Partition

SpecPartition == InitPartition /\ [][NextPartition]_vars

\* C17: with both types requested mc_count is 70% of N rounded down and
\* tf_count the rest, N - mc_count; with exactly one type requested that
\* type's sub-count is N and the other's 0.
C17_SeventyPercentRoundedDown ==
    pt_pc = "returned" =>
        /\ DefaultTypes(pt_types) = {"Multiple Choice", "True/False"} =>
             /\ pt_out.mc_count = (7 * pt_n) \div 10
             /\ pt_out.tf_count = pt_n - pt_out.mc_count
        /\ DefaultTypes(pt_types) = {"Multiple Choice"} =>
             pt_out = [mc_count |-> pt_n, tf_count |-> 0]
        /\ DefaultTypes(pt_types) = {"True/False"} =>
             pt_out = [mc_count |-> 0, tf_count |-> pt_n]

\* -------------------------------------- more properties of the recovery

\* The text between the first '[' and the last ']' of the response without
\* its fences, when there is one.
HasBracketed(t) == FindLB(t) # -1 /\ RFindRB(t) + 1 > FindLB(t)

Bracketed(t) == Slice(t, FindLB(t), RFindRB(t) + 1)

\* The response's bracketed text parses, as it stands, to an array.
ParsesToArray(response_text) ==
    /\ response_text.isStr
    /\ HasBracketed(StripFences(response_text.lexemes))
    /\ JsonLoads(Bracketed(StripFences(response_text.lexemes))).ok
    /\ JsonLoads(Bracketed(StripFences(response_text.lexemes))).val.k = "list"

ArrayOf(response_text) ==
    JsonLoads(Bracketed(StripFences(response_text.lexemes))).val.items

\* The element is a mapping with a question and a correct_answer.
HasBothKeys(v) ==
    v.k = "dict" /\ {"question", "correct_answer"} \subseteq DOMAIN v.obj

\* The record is the mapping with its type set to the tag.
IsTagged(record, mapping, tag) ==
    /\ DOMAIN record = DOMAIN mapping \cup {"type"}
    /\ record["type"] = tag
    /\ \A f \in DOMAIN mapping \ {"type"} : record[f] = mapping[f]

\* C18: for a response whose bracketed text parses to an array the recovery
\* returns the elements that are mappings with both a question and a
\* correct_answer, in their order, each with its type set to the expected tag
\* in place of any type the answer gave; every other element is dropped.
C18_RecoveryKeepsAndTags ==
    (rx_pc = "returned" /\ ParsesToArray(rx_text)) =>
        /\ rx_out.exc = "none"
        /\ Len(rx_out.value) = Len(SelectSeq(ArrayOf(rx_text), HasBothKeys))
        /\ \A i \in 1..Len(rx_out.value) :
             IsTagged(rx_out.value[i],
                      SelectSeq(ArrayOf(rx_text), HasBothKeys)[i].obj, rx_type)

\* An array with an element that is dropped and an element whose own type
\* is replaced by the tag.
C18_Witness ==
    /\ rx_pc = "returned"
    /\ ParsesToArray(rx_text)
    /\ \E i \in DOMAIN ArrayOf(rx_text) : ~HasBothKeys(ArrayOf(rx_text)[i])
    /\ \E i \in DOMAIN ArrayOf(rx_text) :
         /\ HasBothKeys(ArrayOf(rx_text)[i])
         /\ "type" \in DOMAIN ArrayOf(rx_text)[i].obj
         /\ ArrayOf(rx_text)[i].obj["type"] # rx_type
    /\ rx_out.value # <<>>
    /\ \A i \in DOMAIN rx_out.value : rx_out.value[i]["type"] = rx_type

\* ------------------------------------------ more properties of a session

\* C19: in a session pdf_processed is a latch: once True it stays True, the
\* PDF block is not entered again and extracted_text does not change; a
\* generate_quiz call is given that text, also after another PDF was uploaded.
C19_ProcessedOnce ==
    [][ /\ pdf_processed =>
             /\ pdf_processed'
             /\ extracted_text' = extracted_text
             /\ processed_from' = processed_from
             /\ message'[1] = ""
        /\ ~generate_call'.isNone => generate_call' = extracted_text
      ]_vars

\* A quiz was asked for while the upload is another file than the one the
\* text was taken from.
C19_Witness ==
    /\ pdf_processed
    /\ ~uploaded_file.isNone
    /\ uploaded_file # processed_from
    /\ ~generate_call.isNone
    /\ generate_call = extracted_text

\* The run pressed the button and generate_quiz returned [] or raised.
GenerationFailed == message[2] \in {"Failed to generate quiz", "Error generating quiz"}

\* C20: a generation that returns the empty list or raises leaves quiz_data
\* as it was: quiz_data changes only to a non-empty result, and after a
\* failed regeneration the quiz generated before is the one displayed and
\* offered for download.
C20_FailureKeepsQuiz ==
    [][ /\ quiz_data' # quiz_data =>
             /\ message'[2] = "Quiz generated successfully"
             /\ QuizShown(quiz_data')
        /\ GenerationFailed' =>
             /\ quiz_data' = quiz_data
             /\ DisplayedQuiz(quiz_data') = DisplayedQuiz(quiz_data)
             /\ DownloadOffered(quiz_data') = DownloadOffered(quiz_data)
      ]_vars

\* A regeneration failed and the quiz of an earlier generation is shown.
C20_Witness ==
    /\ message[2] = "Failed to generate quiz"
    /\ QuizShown(quiz_data)
    /\ DisplayedQuiz(quiz_data) = quiz_data.list

=============================================================================
